---- MODULE Spec2Model ----
(***************************************************************************)
(* Model of the CMIP6 NetCDF-to-Excel merger (merge_nc_to_excel.py and     *)
(* utils/).  The program is a sequential pipeline:                         *)
(*   discover_nc_files -> validate_coordinate_consistency ->               *)
(*   merge_nc_files -> extract_coordinate_data ->                          *)
(*   prepare_dataframe_data -> write_to_excel                              *)
(* driven by process_files and main.                                       *)
(*                                                                         *)
(* Conventions                                                             *)
(*  - a file name is a sequence of one-character strings;                  *)
(*  - a coordinate is an integer number of thousandths of a degree, so     *)
(*    the tolerance 0.01 is 10;                                            *)
(*  - a call's outcome is a record: exc is "none" or the name of the       *)
(*    exception raised, msg tells two errors of one type apart, value is   *)
(*    the value returned;                                                  *)
(*  - a Python dict is a sequence of entries, in insertion order.          *)
(***************************************************************************)
EXTENDS Integers, Sequences, FiniteSets, TLC

VARIABLES
    pc,                  \* position of the running call or of process_files
    validate_paths,      \* the --validate-paths flag
    input_dir,           \* the input directory: [base, exists, entries]
    contents,            \* file name -> what the NetCDF file holds
    variable,            \* the variable name asked for
    aggregation,         \* the aggregation mode asked for
    files_with_years,    \* discover_nc_files' result
    merged,              \* merge_nc_files' merged DataArray
    time_years,          \* merge_nc_files' year of every time step
    data_dict,           \* extract_coordinate_data's year -> array dict
    dataframe_data,      \* prepare_dataframe_data's column dict
    max_rows_per_sheet,  \* the row ceiling write_to_excel runs with
    workbook,            \* the sheets written to the output path
    output_dir,          \* BASE_OUTPUT_PATH: "absent", "present" or "created"
    raised,              \* the exception the last call ended with
    printed,             \* the warnings and errors printed so far
    reductions,          \* array reductions extract_coordinate_data has performed
    exit_status,         \* the process's exit status, -1 while it runs
    stages               \* the stages process_files has entered, in order

vars == <<pc, validate_paths, input_dir, contents, variable, aggregation, files_with_years,
          merged, time_years, data_dict, dataframe_data, max_rows_per_sheet,
          workbook, output_dir, raised, printed, reductions, exit_status, stages>>

----------------------------------------------------------------------------
(* Bounds of the model *)

MaxFiles == 3

MaxDays == 2

MaxSteps == 3

MaxLat == 2

MaxLon == 2

MaxYears == 2

MaxRows == 4

MaxCeiling == 3

MaxRunFiles == 2

----------------------------------------------------------------------------
(* General helpers *)

Min(S) == CHOOSE x \in S : \A y \in S : x <= y

Max(S) == CHOOSE x \in S : \A y \in S : x >= y

Abs(x) == IF x < 0 THEN -x ELSE x

Range(s) == {s[i] : i \in 1..Len(s)}

\* The sequences of length at most n of distinct elements of S.
DistinctSeqs(S, n) ==
    UNION {{s \in [1..k -> S] : \A i, j \in 1..k : i # j => s[i] # s[j]} : k \in 0..n}

NoError == [exc |-> "none", msg |-> "", file |-> 0]

----------------------------------------------------------------------------
(* utils/file_handler.py: discovery *)

IsDigit(c) == c \in {"0", "1", "2", "3", "4", "5", "6", "7", "8", "9"}

DigitVal(c) ==
    CASE c = "0" -> 0 [] c = "1" -> 1 [] c = "2" -> 2 [] c = "3" -> 3
      [] c = "4" -> 4 [] c = "5" -> 5 [] c = "6" -> 6 [] c = "7" -> 7
      [] c = "8" -> 8 [] c = "9" -> 9

\* config.YEAR_PATTERN = r"_(\d{4})_" matching the name at position i.
YEAR_PATTERN(name, i) ==
    /\ i >= 1
    /\ i + 5 <= Len(name)
    /\ name[i] = "_"
    /\ \A k \in 1..4 : IsDigit(name[i + k])
    /\ name[i + 5] = "_"

\* re.search: the leftmost match, 0 when there is none.
re_search(name) ==
    LET hits == {i \in 1..Len(name) : YEAR_PATTERN(name, i)}
    IN  IF hits = {} THEN 0 ELSE Min(hits)

\* int(match.group(1))
int_group1(name, i) ==
    1000 * DigitVal(name[i + 1]) + 100 * DigitVal(name[i + 2])
        + 10 * DigitVal(name[i + 3]) + DigitVal(name[i + 4])

extract_year_from_filename(name) ==
    LET i == re_search(name)
    IN  IF i = 0
        THEN [exc |-> "ValueError", msg |-> "Could not extract year from filename", value |-> 0]
        ELSE [exc |-> "none", msg |-> "", value |-> int_group1(name, i)]

\* input_dir.glob("*.nc"): the entries whose name ends in ".nc", in the
\* order the file system lists them.
IsNc(name) ==
    /\ Len(name) >= 3
    /\ name[Len(name) - 2] = "."
    /\ name[Len(name) - 1] = "n"
    /\ name[Len(name)] = "c"

glob_nc(entries) == SelectSeq(entries, IsNc)

none_skipped(nc_files) ==
    [k \in 1..Len(nc_files) |->
        [path |-> nc_files[k], year |-> extract_year_from_filename(nc_files[k]).value]]

\* The loop of discover_nc_files: a name without a year is skipped.
RECURSIVE with_years(_)
with_years(nc_files) ==
    IF nc_files = <<>> THEN <<>>
    ELSE LET r == extract_year_from_filename(Head(nc_files))
         IN  IF r.exc = "none"
             THEN <<[path |-> Head(nc_files), year |-> r.value]>> \o with_years(Tail(nc_files))
             ELSE with_years(Tail(nc_files))

\* list.sort(key=lambda x: x[1]): ascending by year, stable.
sort_insert(sorted, e) ==
    LET k == Cardinality({i \in 1..Len(sorted) : sorted[i].year <= e.year})
    IN  SubSeq(sorted, 1, k) \o <<e>> \o SubSeq(sorted, k + 1, Len(sorted))

RECURSIVE sort_by_year_from(_, _)
sort_by_year_from(sorted, rest) ==
    IF rest = <<>> THEN sorted
    ELSE sort_by_year_from(sort_insert(sorted, Head(rest)), Tail(rest))

unsorted_by_year(pairs) == pairs

sort_by_year(pairs) == sort_by_year_from(<<>>, pairs)

discover_nc_files(dir) ==
    IF ~dir.exists
    THEN [exc |-> "FileNotFoundError", msg |-> "Input directory does not exist", value |-> <<>>]
    ELSE LET nc_files == glob_nc(dir.entries)
             found == with_years(nc_files)
         IN  IF nc_files = <<>>
             THEN [exc |-> "ValueError", msg |-> "No NetCDF files found in directory", value |-> <<>>]
             ELSE IF found = <<>>
             THEN [exc |-> "ValueError", msg |-> "Could not extract years from any files", value |-> <<>>]
             ELSE [exc |-> "none", msg |-> "", value |-> sort_by_year(found)]

----------------------------------------------------------------------------
(* Numbers.  A cell of an array is a float: a record that is either NaN   *)
(* or the exact fraction num/den, so that a mean is computed, not rounded. *)

Num(v) == [nan |-> FALSE, num |-> v, den |-> 1]

NaN == [nan |-> TRUE, num |-> 0, den |-> 1]

\* The sum of a sequence of integers.
RECURSIVE Sum(_)
Sum(s) == IF s = <<>> THEN 0 ELSE Head(s) + Sum(Tail(s))

\* The concatenation of a sequence of sequences.
RECURSIVE Flatten(_)
Flatten(ss) == IF ss = <<>> THEN <<>> ELSE Head(ss) \o Flatten(Tail(ss))

\* The elements of a set of integers, ascending.
RECURSIVE Ascending(_)
Ascending(S) == IF S = {} THEN <<>> ELSE <<Min(S)>> \o Ascending(S \ {Min(S)})

\* [x] * n
Repeat(x, n) == [k \in 1..n |-> x]

----------------------------------------------------------------------------
(* utils/nc_reader.py: reading and merging *)

NoArray == [lat |-> <<>>, lon |-> <<>>, data |-> <<>>]

\* xr.open_dataset, then ds[variable_name]: a DataArray with its lat and lon
\* coordinates and its values by (time, lat, lon).
read_nc_file(file, variable_name) ==
    IF ~file.readable
    THEN [exc |-> "OSError", msg |-> "cannot open the file", value |-> NoArray]
    ELSE IF variable_name \notin file.data_vars
    THEN [exc |-> "ValueError", msg |-> "Variable not found in file", value |-> NoArray]
    ELSE [exc |-> "none", msg |-> "",
          value |-> [lat |-> file.lat, lon |-> file.lon, data |-> file.data]]

\* One element of np.allclose(a, b, atol=0.01): |x - y| <= atol + rtol * |y|
\* with rtol left at numpy's default 1e-05.  Coordinates are thousandths of
\* a degree, so atol is 10; both sides are multiplied by 100000.
isclose(x, y) == 100000 * Abs(x - y) <= 100000 * 10 + Abs(y)

\* np.allclose(a, b, atol=0.01) on two 1-D arrays: they are broadcast (equal
\* lengths, or one of length 1) or numpy raises a ValueError.
allclose(a, b) ==
    IF Len(a) # Len(b) /\ Len(a) # 1 /\ Len(b) # 1
    THEN [exc |-> "ValueError", msg |-> "operands could not be broadcast together",
          value |-> FALSE]
    ELSE LET n == IF Len(a) = 1 THEN Len(b) ELSE Len(a)
             at(s, k) == IF Len(s) = 1 THEN s[1] ELSE s[k]
         IN  [exc |-> "none", msg |-> "",
              value |-> \A k \in 1..n : isclose(at(a, k), at(b, k))]

\* The coordinate check of merge_nc_files on the k-th dataset (k >= 2).
coords_check(datasets, k) ==
    LET lat_match == allclose(datasets[k].lat, datasets[1].lat)
        lon_match == allclose(datasets[k].lon, datasets[1].lon)
    IN  IF lat_match.exc # "none" THEN [exc |-> lat_match.exc, msg |-> lat_match.msg, file |-> k]
        ELSE IF lon_match.exc # "none" THEN [exc |-> lon_match.exc, msg |-> lon_match.msg, file |-> k]
        ELSE IF ~(lat_match.value /\ lon_match.value)
        THEN [exc |-> "ValueError", msg |-> "Coordinate mismatch detected in file", file |-> k]
        ELSE [exc |-> "none", msg |-> "", file |-> 0]

\* The index xr.concat aligns a non-concatenated dimension to (join="outer"):
\* the files' own index when they all agree, else the sorted union.
outer_join(indexes) ==
    IF \A k \in 1..Len(indexes) : indexes[k] = indexes[1]
    THEN indexes[1]
    ELSE Ascending(UNION {Range(indexes[k]) : k \in 1..Len(indexes)})

IndexOf(s, v) == Min({i \in 1..Len(s) : s[i] = v})

\* A DataArray reindexed to the joined lat and lon: NaN where it has no value.
reindex(da, lat, lon) ==
    [t \in 1..Len(da.data) |->
        [i \in 1..Len(lat) |->
            [j \in 1..Len(lon) |->
                IF lat[i] \in Range(da.lat) /\ lon[j] \in Range(da.lon)
                THEN da.data[t][IndexOf(da.lat, lat[i])][IndexOf(da.lon, lon[j])]
                ELSE NaN]]]

\* xr.concat(datasets, dim='time')
xr_concat(datasets) ==
    LET lat == outer_join([k \in 1..Len(datasets) |-> datasets[k].lat])
        lon == outer_join([k \in 1..Len(datasets) |-> datasets[k].lon])
    IN  [lat |-> lat, lon |-> lon,
         data |-> Flatten([k \in 1..Len(datasets) |-> reindex(datasets[k], lat, lon)])]

days_assumed(da) == 365

\* len(datasets[i]): the length of the DataArray's first dimension, time.
days_in_file(da) == Len(da.data)

\* merge_nc_files with the years given, as process_files calls it.  (The
\* branch for years left out reads the time coordinate; no caller takes it.)
merge_nc_files(file_paths, variable_name, years, fs) ==
    LET n == Len(file_paths)
        reads == [k \in 1..n |-> read_nc_file(fs[file_paths[k]], variable_name)]
        unread == {k \in 1..n : reads[k].exc # "none"}
        datasets == [k \in 1..n |-> reads[k].value]
        checks == [k \in 2..n |-> coords_check(datasets, k)]
        failed == {k \in 2..n : checks[k].exc # "none"}
        none == [merged |-> NoArray, time_years |-> <<>>]
    IN  IF n = 0
        THEN [exc |-> "ValueError", msg |-> "No file paths provided", file |-> 0, value |-> none]
        ELSE IF unread # {}
        THEN [exc |-> "RuntimeError", msg |-> "Error reading file", file |-> Min(unread),
              value |-> none]
        ELSE IF failed # {}
        THEN [exc |-> checks[Min(failed)].exc, msg |-> checks[Min(failed)].msg,
              file |-> Min(failed), value |-> none]
        ELSE IF Len(years) > n
        THEN [exc |-> "IndexError", msg |-> "list index out of range", file |-> 0, value |-> none]
        ELSE [exc |-> "none", msg |-> "", file |-> 0,
              value |-> [merged |-> xr_concat(datasets),
                         time_years |-> Flatten([i \in 1..Len(years) |->
                                            Repeat(years[i], days_in_file(datasets[i]))])]]

----------------------------------------------------------------------------
(* utils/nc_reader.py: aggregation by year *)

\* The cells of a sequence that are not NaN.
NotNaN(cells) == SelectSeq(cells, LAMBDA c : ~c.nan)

\* DataArray.mean(dim='time') at one cell: xarray skips NaN (skipna) and
\* gives NaN when nothing is left.  The cells are whole numbers.
mean_cell(cells) ==
    LET vals == NotNaN(cells)
    IN  IF vals = <<>> THEN NaN
        ELSE [nan |-> FALSE, num |-> Sum([k \in 1..Len(vals) |-> vals[k].num]),
              den |-> Len(vals)]

\* DataArray.max(dim='time') at one cell.
max_cell(cells) ==
    LET vals == NotNaN(cells)
    IN  IF vals = <<>> THEN NaN ELSE Num(Max({vals[k].num : k \in 1..Len(vals)}))

\* DataArray.min(dim='time') at one cell.
min_cell(cells) ==
    LET vals == NotNaN(cells)
    IN  IF vals = <<>> THEN NaN ELSE Num(Min({vals[k].num : k \in 1..Len(vals)}))

\* np.unique(years): the distinct years, ascending.
np_unique(years) == Ascending(Range(years))

first_to_last(years, year) ==
    LET at == {t \in 1..Len(years) : years[t] = year}
    IN  [k \in 1..(Max(at) - Min(at) + 1) |-> Min(at) + k - 1]

\* np.where(years == year)[0]: the time indices labelled with the year.
year_indices(years, year) == Ascending({t \in 1..Len(years) : years[t] = year})

\* year_data.<reduction>(dim='time').values: a (lat, lon) array.
reduce_time(year_data, n_lat, n_lon, mode) ==
    [i \in 1..n_lat |->
        [j \in 1..n_lon |->
            LET cells == [k \in 1..Len(year_data) |-> year_data[k][i][j]]
            IN  CASE mode = "mean" -> mean_cell(cells)
                  [] mode = "max" -> max_cell(cells)
                  [] mode = "min" -> min_cell(cells)]]

\* The loop of extract_coordinate_data over the years left, with the dict
\* built and the reductions performed so far.
RECURSIVE extract_loop(_, _, _, _, _, _)
extract_loop(data_array, years, mode, left, dict, done) ==
    IF left = <<>>
    THEN [exc |-> "none", msg |-> "", reductions |-> done, value |-> dict]
    ELSE LET year == Head(left)
             idx == year_indices(years, year)
             year_data == [k \in 1..Len(idx) |-> data_array.data[idx[k]]]
             n_lat == Len(data_array.lat)
             n_lon == Len(data_array.lon)
         IN  IF \E k \in 1..Len(idx) : idx[k] > Len(data_array.data)
             THEN [exc |-> "IndexError", msg |-> "index out of bounds", reductions |-> done,
                   value |-> <<>>]
             ELSE IF mode \in {"mean", "max", "min"}
             THEN extract_loop(data_array, years, mode, Tail(left),
                      Append(dict, [year |-> year,
                                    array |-> [ndim |-> 2,
                                               cells |-> reduce_time(year_data, n_lat, n_lon,
                                                                     mode)]]),
                      done + 1)
             ELSE IF mode = "all"
             THEN extract_loop(data_array, years, mode, Tail(left),
                      Append(dict, [year |-> year, array |-> [ndim |-> 3, cells |-> year_data]]),
                      done)
             ELSE [exc |-> "ValueError", msg |-> "Unknown aggregation method",
                   reductions |-> done, value |-> <<>>]

\* extract_coordinate_data: value is (lat, lon, data_dict).
extract_coordinate_data(data_array, years, mode) ==
    LET r == extract_loop(data_array, years, mode, np_unique(years), <<>>, 0)
    IN  [exc |-> r.exc, msg |-> r.msg, reductions |-> r.reductions,
         value |-> [lat |-> data_array.lat, lon |-> data_array.lon, data_dict |-> r.value]]

----------------------------------------------------------------------------
(* utils/nc_reader.py: tabulation *)

\* lat_grid.flatten() of np.meshgrid(lon, lat): row lat_index * n_lon + lon_index
\* holds lat[lat_index].
lat_flat(lat, lon) ==
    [r \in 1..(Len(lat) * Len(lon)) |-> lat[((r - 1) \div Len(lon)) + 1]]

\* lon_grid.flatten()
lon_flat(lat, lon) ==
    [r \in 1..(Len(lat) * Len(lon)) |-> lon[((r - 1) % Len(lon)) + 1]]

\* A 2-D array read column by column.
flatten_by_column(cells) ==
    IF cells = <<>> THEN <<>>
    ELSE Flatten([j \in 1..Len(cells[1]) |-> [i \in 1..Len(cells) |-> cells[i][j]]])

\* ndarray.flatten() of a 2-D array: row after row.
flatten(cells) == Flatten(cells)

\* ndarray.mean(axis=0) at one column: numpy's mean, NaN if a value is NaN
\* or if there is no value.
np_mean_cell(cells) ==
    IF cells = <<>> \/ \E k \in 1..Len(cells) : cells[k].nan THEN NaN
    ELSE [nan |-> FALSE, num |-> Sum([k \in 1..Len(cells) |-> cells[k].num]),
          den |-> Len(cells)]

\* data_array.reshape(-1, n_lat * n_lon).mean(axis=0) of a 3-D array.
reshape_mean(days, n) ==
    LET flat == Flatten([d \in 1..Len(days) |-> flatten(days[d])])
    IN  IF n = 0 \/ Len(flat) % n # 0
        THEN [exc |-> "ValueError", msg |-> "cannot reshape array", value |-> <<>>]
        ELSE [exc |-> "none", msg |-> "",
              value |-> [c \in 1..n |->
                            np_mean_cell([k \in 1..(Len(flat) \div n) |-> flat[(k - 1) * n + c]])]]

\* The column of one year.
year_column(array, n_lat, n_lon) ==
    IF array.ndim = 2 THEN [exc |-> "none", msg |-> "", value |-> flatten(array.cells)]
    ELSE IF array.ndim = 3 THEN reshape_mean(array.cells, n_lat * n_lon)
    ELSE [exc |-> "ValueError", msg |-> "Unexpected data array shape", value |-> <<>>]

\* f"{variable_name}_{year}"
column_name(variable_name, year) == <<variable_name, "_", year>>

items_as_inserted(dict) == dict

\* sorted(data_dict.items()): the entries by ascending year (keys are distinct).
sorted_items(dict) == sort_by_year_from(<<>>, dict)

\* prepare_dataframe_data: value is the column dict, in insertion order.
prepare_dataframe_data(lat, lon, dict, variable_name) ==
    LET items == sorted_items(dict)
        cols == [k \in 1..Len(items) |-> year_column(items[k].array, Len(lat), Len(lon))]
        bad == {k \in 1..Len(items) : cols[k].exc # "none"}
    IN  IF bad # {}
        THEN [exc |-> cols[Min(bad)].exc, msg |-> cols[Min(bad)].msg, value |-> <<>>]
        ELSE [exc |-> "none", msg |-> "",
              value |-> <<[name |-> <<"lat">>, values |-> lat_flat(lat, lon)],
                          [name |-> <<"lon">>, values |-> lon_flat(lat, lon)]>>
                        \o [k \in 1..Len(items) |->
                               [name |-> column_name(variable_name, items[k].year),
                                values |-> cols[k].value]]]

----------------------------------------------------------------------------
(* utils/excel_writer.py: the spreadsheet *)

\* config.EXCEL_SHEET_NAME
EXCEL_SHEET_NAME == <<"Data">>

HasColumn(table, name) == \E c \in 1..Len(table) : table[c].name = name

\* ['lat', 'lon'] + [c for c in df.columns if c not in ['lat', 'lon']]
lat_lon_first(table) ==
    SelectSeq(table, LAMBDA c : c.name = <<"lat">>)
        \o SelectSeq(table, LAMBDA c : c.name = <<"lon">>)
        \o SelectSeq(table, LAMBDA c : c.name \notin {<<"lat">>, <<"lon">>})

\* df.iloc[start:end] written to a sheet: the header and the rows.
sheet_of(df, name, start, end) ==
    [name |-> name,
     columns |-> [c \in 1..Len(df) |-> df[c].name],
     rows |-> [r \in 1..(end - start) |-> [c \in 1..Len(df) |-> df[c].values[start + r]]]]

floor_sheets(n_rows, ceiling) == n_rows \div ceiling

\* (len(df) + max_rows_per_sheet - 1) // max_rows_per_sheet
num_sheets(n_rows, ceiling) == (n_rows + ceiling - 1) \div ceiling

\* write_to_excel with a row ceiling of at least 1: value is the workbook
\* written.  io_ok tells whether the output file could be opened for writing.
write_to_excel(table, ceiling, io_ok) ==
    IF ~HasColumn(table, <<"lat">>) \/ ~HasColumn(table, <<"lon">>)
    THEN [exc |-> "ValueError", msg |-> "data_dict must contain 'lat' and 'lon' keys",
          value |-> <<>>]
    ELSE IF \E c \in 1..Len(table) : Len(table[c].values) # Len(table[1].values)
    THEN [exc |-> "ValueError", msg |-> "All arrays must be of the same length", value |-> <<>>]
    ELSE IF ~io_ok
    THEN [exc |-> "PermissionError", msg |-> "cannot write the output file", value |-> <<>>]
    ELSE LET df == lat_lon_first(table)
             n_rows == Len(df[1].values)
             n == num_sheets(n_rows, ceiling)
         IN  [exc |-> "none", msg |-> "",
              value |-> IF n_rows > ceiling
                        THEN [i \in 1..n |->
                                 sheet_of(df,
                                          IF n > 1 THEN EXCEL_SHEET_NAME \o <<"_", i>>
                                                   ELSE EXCEL_SHEET_NAME,
                                          (i - 1) * ceiling,
                                          Min({i * ceiling, n_rows}))]
                        ELSE <<sheet_of(df, EXCEL_SHEET_NAME, 0, n_rows)>>]

----------------------------------------------------------------------------
(* utils/file_handler.py: the lightweight pre-check *)

\* The largest absolute difference of two arrays of one length.
max_abs_diff(a, b) == Max({Abs(a[i] - b[i]) : i \in 1..Len(a)})

\* What validate_coordinate_consistency finds in one file after the first:
\* "same", "differ" (it returns False) or "error" (an exception such as an
\* unreadable file or the maximum of an empty array: it returns True).
precheck_file(first, file) ==
    IF ~file.readable THEN "error"
    ELSE IF ~(Len(file.lat) = Len(first.lat) /\ Len(file.lon) = Len(first.lon)) THEN "differ"
    ELSE IF file.lat = <<>> THEN "error"
    ELSE IF ~(max_abs_diff(file.lat, first.lat) < 10) THEN "differ"
    ELSE IF file.lon = <<>> THEN "error"
    ELSE IF ~(max_abs_diff(file.lon, first.lon) < 10) THEN "differ"
    ELSE "same"

\* validate_coordinate_consistency: the first file against file_paths[1:5].
validate_coordinate_consistency(file_paths, fs) ==
    IF Len(file_paths) < 2 THEN TRUE
    ELSE IF ~fs[file_paths[1]].readable THEN TRUE
    ELSE LET last == Min({5, Len(file_paths)})
             found == [k \in 2..last |-> precheck_file(fs[file_paths[1]], fs[file_paths[k]])]
             hit == {k \in 2..last : found[k] # "same"}
         IN  IF hit = {} THEN TRUE ELSE found[Min(hit)] = "error"

----------------------------------------------------------------------------
(* config.py and merge_nc_to_excel.py: the driver *)

\* config.validate_paths().  BASE_OUTPUT_PATH is a directory inside
\* BASE_INPUT_PATH, so os.path.dirname(BASE_OUTPUT_PATH) is BASE_INPUT_PATH.
config_validate_paths(dir, out) ==
    [input_exists |-> dir.base, output_exists |-> out # "absent" \/ dir.base]

\* output_dir.mkdir(parents=True, exist_ok=True) in config.get_output_path.
mkdir(out) == IF out = "absent" THEN "created" ELSE out

\* Whether the except clause of a step of process_files catches exc: step 1
\* has except (FileNotFoundError, ValueError), the others except Exception.
catches(step, exc) ==
    IF step = "discover" THEN exc \in {"FileNotFoundError", "ValueError"}
    ELSE exc \notin {"none", "KeyboardInterrupt", "SystemExit"}

exit_code_zero(step) == 0

\* The sys.exit(1) of the except clause of a step.
exit_code(step) == 1

\* What leaves process_files when a step raised exc.
leaves(step, exc) ==
    IF catches(step, exc) THEN [exc |-> "SystemExit", code |-> exit_code(step)]
    ELSE [exc |-> exc, code |-> 0]

\* The exit status sys.exit(main()) ends with: main returns 0 when
\* process_files returned, 1 from except KeyboardInterrupt and from except
\* Exception; a SystemExit passes through both.
main_status(leaving) ==
    CASE leaving.exc = "none" -> 0
      [] leaving.exc = "SystemExit" -> leaving.code
      [] leaving.exc = "KeyboardInterrupt" -> 1
      [] OTHER -> 1

\* What main prints for it.
main_prints(leaving) ==
    CASE leaving.exc = "none" -> {<<"INFO", "Processing completed successfully!">>}
      [] leaving.exc = "SystemExit" -> {}
      [] leaving.exc = "KeyboardInterrupt" -> {<<"INFO", "Processing interrupted by user.">>}
      [] OTHER -> {<<"FATAL ERROR", leaving.exc>>}

\* The exit status when process_files was called by a plain script: a
\* SystemExit ends the process with its code, another exception with 1.
script_status(leaving) ==
    CASE leaving.exc = "none" -> 0
      [] leaving.exc = "SystemExit" -> leaving.code
      [] OTHER -> 1

----------------------------------------------------------------------------
(* File names the directory listings are drawn from *)

\* "t_2035_a.nc"
F2035a == <<"t", "_", "2", "0", "3", "5", "_", "a", ".", "n", "c">>

\* "t_2036_a.nc"
F2036a == <<"t", "_", "2", "0", "3", "6", "_", "a", ".", "n", "c">>

\* "u_2035_b.nc": a second file of the year 2035
F2035b == <<"u", "_", "2", "0", "3", "5", "_", "b", ".", "n", "c">>

\* "t_20355_.nc": five digits between the underscores
FFiveDigits == <<"t", "_", "2", "0", "3", "5", "5", "_", ".", "n", "c">>

\* "x_1_2034_.nc": the first underscore group is not a year
F2034late == <<"x", "_", "1", "_", "2", "0", "3", "4", "_", ".", "n", "c">>

\* "t_2037_2030_.nc": two year groups, the leftmost one counts
FTwoYears == <<"t", "_", "2", "0", "3", "7", "_", "2", "0", "3", "0", "_", ".", "n", "c">>

\* "t_2035_a.txt": not a NetCDF file
FText == <<"t", "_", "2", "0", "3", "5", "_", "a", ".", "t", "x", "t">>

\* "notes.nc": no year at all
FNoYear == <<"n", "o", "t", "e", "s", ".", "n", "c">>

\* "t_2035.nc": no underscore after the year
FNoTail == <<"t", "_", "2", "0", "3", "5", ".", "n", "c">>

FileNames ==
    {F2035a, F2036a, F2035b, FFiveDigits, F2034late, FTwoYears, FText, FNoYear, FNoTail}

----------------------------------------------------------------------------
(* NetCDF files the merge is run on.  Coordinates in thousandths of a     *)
(* degree: latitude about -10, longitude about 150.                        *)

GridA == [lat |-> <<-10000, -9950>>, lon |-> <<150000>>]

\* first latitude 0.005 off GridA's
GridNear == [lat |-> <<-9995, -9950>>, lon |-> <<150000>>]

\* first latitude exactly 0.01 off GridA's
GridEdge == [lat |-> <<-9990, -9950>>, lon |-> <<150000>>]

\* longitude 0.011 off GridA's
GridOver == [lat |-> <<-10000, -9950>>, lon |-> <<150011>>]

\* longitude 0.02 off GridA's
GridFar == [lat |-> <<-10000, -9950>>, lon |-> <<150020>>]

\* second latitude 0.05 off GridA's
GridLatFar == [lat |-> <<-10000, -9900>>, lon |-> <<150000>>]

\* one latitude more than GridA
GridThree == [lat |-> <<-10000, -9950, -9900>>, lon |-> <<150000>>]

\* a single latitude
GridOne == [lat |-> <<-10000>>, lon |-> <<150000>>]

\* What a file of the given grid and number of days holds; the values tell
\* the file (tag), the day and the cell.
MkFile(grid, days, tag) ==
    [readable |-> TRUE, data_vars |-> {"tasmax"}, lat |-> grid.lat, lon |-> grid.lon,
     data |-> [t \in 1..days |->
                 [i \in 1..Len(grid.lat) |->
                     [j \in 1..Len(grid.lon) |-> Num(1000 * tag + 100 * t + 10 * i + j)]]]]

Unreadable(f) == [f EXCEPT !.readable = FALSE]

OtherVariable(f) == [f EXCEPT !.data_vars = {"pr"}]

\* The files a merge is tried on: GridA with every number of days, every
\* other grid with one day, a damaged file and a file of another variable.
MergeFiles(tag) ==
    {MkFile(GridA, d, tag) : d \in 0..MaxDays}
        \cup {MkFile(g, 1, tag) : g \in {GridNear, GridEdge, GridOver, GridFar,
                                         GridLatFar, GridThree, GridOne}}
        \cup {Unreadable(MkFile(GridA, 1, tag)), OtherVariable(MkFile(GridA, 1, tag))}

PathPool == <<F2035a, F2035b, F2036a, F2034late, FTwoYears>>

\* Year labels given to the files, by position: all distinct, or repeating.
YearLabels == {<<2035, 2036, 2037, 2038, 2039>>, <<2035, 2035, 2036, 2036, 2037>>}

----------------------------------------------------------------------------
(* Values of the variables a specification does not use *)

NoDir == [base |-> FALSE, exists |-> FALSE, entries |-> <<>>]

NoContents == [n \in {} |-> 0]

NoMerged == NoArray

----------------------------------------------------------------------------
(* SpecDiscover: discover_nc_files called on every bounded directory *)

InitDiscover ==
    /\ pc = "call"
    /\ validate_paths = FALSE
    /\ input_dir \in [base : {TRUE}, exists : BOOLEAN, entries : DistinctSeqs(FileNames, MaxFiles)]
    /\ contents = NoContents
    /\ variable = "tasmax"
    /\ aggregation = "mean"
    /\ files_with_years = <<>>
    /\ merged = NoMerged
    /\ time_years = <<>>
    /\ data_dict = <<>>
    /\ dataframe_data = <<>>
    /\ max_rows_per_sheet = 1
    /\ workbook = <<>>
    /\ output_dir = "absent"
    /\ raised = NoError
    /\ printed = {}
    /\ reductions = 0
    /\ exit_status = -1
    /\ stages = <<>>

CallDiscover ==
    /\ pc = "call"
    /\ LET r == discover_nc_files(input_dir)
       IN  /\ files_with_years' = r.value
           /\ raised' = [exc |-> r.exc, msg |-> r.msg, file |-> 0]
    /\ pc' = "returned"
    /\ UNCHANGED <<validate_paths, input_dir, contents, variable, aggregation, merged, time_years,
                   data_dict, dataframe_data, max_rows_per_sheet, workbook,
                   output_dir, printed, reductions, exit_status, stages>>

NextDiscover == CallDiscover

SpecDiscover == InitDiscover /\ [][NextDiscover]_vars

----------------------------------------------------------------------------
(* SpecMerge: merge_nc_files called on every bounded list of files *)

file_paths_of(pairs) == [k \in 1..Len(pairs) |-> pairs[k].path]

years_of(pairs) == [k \in 1..Len(pairs) |-> pairs[k].year]

InitMerge ==
    /\ pc = "call"
    /\ validate_paths = FALSE
    /\ input_dir = NoDir
    /\ \E n \in 1..Min({MaxFiles, Len(PathPool)}) :
          /\ \E labels \in YearLabels :
                files_with_years = [k \in 1..n |-> [path |-> PathPool[k], year |-> labels[k]]]
          /\ \E pick \in [1..n -> MergeFiles(0)] :
                contents = [p \in {PathPool[k] : k \in 1..n} |->
                               LET k == IndexOf(PathPool, p)
                                   f == pick[k]
                               IN  [f EXCEPT !.data =
                                       MkFile([lat |-> f.lat, lon |-> f.lon], Len(f.data), k).data]]
    /\ variable = "tasmax"
    /\ aggregation = "mean"
    /\ merged = NoMerged
    /\ time_years = <<>>
    /\ data_dict = <<>>
    /\ dataframe_data = <<>>
    /\ max_rows_per_sheet = 1
    /\ workbook = <<>>
    /\ output_dir = "absent"
    /\ raised = NoError
    /\ printed = {}
    /\ reductions = 0
    /\ exit_status = -1
    /\ stages = <<>>

CallMerge ==
    /\ pc = "call"
    /\ LET r == merge_nc_files(file_paths_of(files_with_years), variable,
                               years_of(files_with_years), contents)
       IN  /\ merged' = r.value.merged
           /\ time_years' = r.value.time_years
           /\ raised' = [exc |-> r.exc, msg |-> r.msg, file |-> r.file]
    /\ pc' = "returned"
    /\ UNCHANGED <<validate_paths, input_dir, contents, variable, aggregation, files_with_years,
                   data_dict, dataframe_data, max_rows_per_sheet, workbook,
                   output_dir, printed, reductions, exit_status, stages>>

NextMerge == CallMerge

SpecMerge == InitMerge /\ [][NextMerge]_vars

----------------------------------------------------------------------------
(* SpecExtract: extract_coordinate_data called on every bounded series *)

Modes == {"mean", "max", "min", "all"}

\* "median" stands for every mode string the program does not know.
ModeStrings == Modes \cup {"median"}

ExtractGrids == {GridOne, GridA}

CellValues == {Num(1), Num(4)}

\* The (time, lat, lon) arrays of the given shape.
Arrays(steps, n_lat, n_lon) == [1..steps -> [1..n_lat -> [1..n_lon -> CellValues]]]

InitExtract ==
    /\ pc = "call"
    /\ validate_paths = FALSE
    /\ input_dir = NoDir
    /\ contents = NoContents
    /\ variable = "tasmax"
    /\ aggregation \in ModeStrings
    /\ files_with_years = <<>>
    /\ \E g \in ExtractGrids : \E steps \in 0..MaxSteps :
          /\ \E data \in Arrays(steps, Len(g.lat), Len(g.lon)) :
                merged = [lat |-> g.lat, lon |-> g.lon, data |-> data]
          /\ time_years \in [1..steps -> {2035, 2036}]
    /\ data_dict = <<>>
    /\ dataframe_data = <<>>
    /\ max_rows_per_sheet = 1
    /\ workbook = <<>>
    /\ output_dir = "absent"
    /\ raised = NoError
    /\ printed = {}
    /\ reductions = 0
    /\ exit_status = -1
    /\ stages = <<>>

CallExtract ==
    /\ pc = "call"
    /\ LET r == extract_coordinate_data(merged, time_years, aggregation)
       IN  /\ data_dict' = IF r.exc = "none" THEN r.value.data_dict ELSE <<>>
           /\ reductions' = r.reductions
           /\ raised' = [exc |-> r.exc, msg |-> r.msg, file |-> 0]
    /\ pc' = "returned"
    /\ UNCHANGED <<validate_paths, input_dir, contents, variable, aggregation, files_with_years, merged,
                   time_years, dataframe_data, max_rows_per_sheet, workbook,
                   output_dir, printed, exit_status, stages>>

NextExtract == CallExtract

SpecExtract == InitExtract /\ [][NextExtract]_vars

----------------------------------------------------------------------------
(* SpecTable: prepare_dataframe_data and write_to_excel called on every    *)
(* bounded grid, year-to-array mapping, table and row ceiling              *)

\* n coordinates, 0.05 degrees apart.
Coordinates(first, n) == [k \in 1..n |-> first + 50 * (k - 1)]

\* The array of a year: days = 0 is a reduced (lat, lon) array, days > 0 a
\* raw (day, lat, lon) array; the values tell the year, the day and the cell.
YearArray(year, days, n_lat, n_lon) ==
    LET day(d) == [i \in 1..n_lat |->
                      [j \in 1..n_lon |-> Num(1000 * d + 100 * (year - 2030) + 10 * i + j)]]
    IN  IF days = 0 THEN [ndim |-> 2, cells |-> day(0)]
        ELSE [ndim |-> 3, cells |-> [d \in 1..days |-> day(d)]]

\* The year-to-array mapping of the years ys, inserted in that order, the
\* k-th array of ds[k] days.
YearDict(ys, ds, n_lat, n_lon) ==
    [k \in 1..Len(ys) |-> [year |-> ys[k], array |-> YearArray(ys[k], ds[k], n_lat, n_lon)]]

\* Tables handed to write_to_excel directly: n rows, the columns in several
\* orders, with and without "lat" and "lon" and of unequal lengths.
Column(name, tag, n) == [name |-> name, values |-> [r \in 1..n |-> Num(10 * r + tag)]]

DirectTables(n) ==
    LET lat == Column(<<"lat">>, 1, n)
        lon == Column(<<"lon">>, 2, n)
        y35 == Column(<<"tasmax", "_", 2035>>, 3, n)
        y36 == Column(<<"tasmax", "_", 2036>>, 4, n)
    IN  {<<lat, lon, y35, y36>>, <<y36, lon, y35, lat>>, <<lat, lon>>, <<lon, y35>>,
         <<lat, y35>>, <<y35>>, <<>>, <<lat, lon, Column(<<"tasmax", "_", 2035>>, 3, n + 1)>>}

InitTable ==
    /\ validate_paths = FALSE
    /\ input_dir = NoDir
    /\ contents = NoContents
    /\ variable = "tasmax"
    /\ aggregation = "mean"
    /\ files_with_years = <<>>
    /\ time_years = <<>>
    /\ max_rows_per_sheet \in 1..MaxCeiling
    /\ \/ /\ pc = "prepare"
          /\ \E n_lat \in 0..MaxLat : \E n_lon \in 0..MaxLon :
                /\ merged = [lat |-> Coordinates(-10000, n_lat),
                             lon |-> Coordinates(150000, n_lon), data |-> <<>>]
                /\ \E ys \in DistinctSeqs({2035, 2036, 2037}, MaxYears) :
                      \E ds \in [1..Len(ys) -> 0..MaxDays] :
                          data_dict = YearDict(ys, ds, n_lat, n_lon)
          /\ dataframe_data = <<>>
       \/ /\ pc = "write"
          /\ merged = NoMerged
          /\ data_dict = <<>>
          /\ \E n \in 0..MaxRows : dataframe_data \in DirectTables(n)
    /\ workbook = <<>>
    /\ output_dir = "absent"
    /\ raised = NoError
    /\ printed = {}
    /\ reductions = 0
    /\ exit_status = -1
    /\ stages = <<>>

CallPrepare ==
    /\ pc = "prepare"
    /\ LET r == prepare_dataframe_data(merged.lat, merged.lon, data_dict, variable)
       IN  /\ dataframe_data' = r.value
           /\ raised' = [exc |-> r.exc, msg |-> r.msg, file |-> 0]
           /\ pc' = IF r.exc = "none" THEN "write" ELSE "returned"
    /\ stages' = Append(stages, "prepare")
    /\ UNCHANGED <<validate_paths, input_dir, contents, variable, aggregation, files_with_years, merged,
                   time_years, data_dict, max_rows_per_sheet, workbook,
                   output_dir, printed, reductions, exit_status>>

CallWrite ==
    /\ pc = "write"
    /\ \E io_ok \in BOOLEAN :
          LET r == write_to_excel(dataframe_data, max_rows_per_sheet, io_ok)
          IN  /\ workbook' = r.value
              /\ raised' = [exc |-> r.exc, msg |-> r.msg, file |-> 0]
    /\ pc' = "returned"
    /\ stages' = Append(stages, "write")
    /\ UNCHANGED <<validate_paths, input_dir, contents, variable, aggregation, files_with_years, merged,
                   time_years, data_dict, dataframe_data, max_rows_per_sheet,
                   output_dir, printed, reductions, exit_status>>

NextTable == CallPrepare \/ CallWrite

SpecTable == InitTable /\ [][NextTable]_vars

----------------------------------------------------------------------------
(* Spec: the whole program, started from the command line (main) or by a   *)
(* call of process_files, on every bounded directory                       *)

RunNames == {F2035a, F2035b, F2036a, FNoYear}

\* The files a run finds: GridA with no, one and two days, grids off GridA
\* by 0.005, 0.011 and 0.02 degrees, and a damaged file.
RunFiles(tag) ==
    {MkFile(GridA, 0, tag), MkFile(GridA, 1, tag), MkFile(GridA, 2, tag),
     MkFile(GridNear, 1, tag), MkFile(GridOver, 1, tag), MkFile(GridFar, 1, tag),
     Unreadable(MkFile(GridA, 1, tag))}

Init ==
    /\ pc \in {"main", "step1"}
    /\ validate_paths \in (IF pc = "main" THEN BOOLEAN ELSE {FALSE})
    /\ \/ /\ input_dir \in [base : BOOLEAN, exists : {FALSE}, entries : {<<>>}]
          /\ contents = NoContents
       \/ \E entries \in DistinctSeqs(RunNames, MaxRunFiles) :
             /\ input_dir = [base |-> TRUE, exists |-> TRUE, entries |-> entries]
             /\ \E pick \in [{n \in Range(entries) : re_search(n) # 0} -> RunFiles(0)] :
                   contents = [p \in DOMAIN pick |->
                                  [pick[p] EXCEPT !.data =
                                      MkFile([lat |-> pick[p].lat, lon |-> pick[p].lon],
                                             Len(pick[p].data), IndexOf(PathPool, p)).data]]
    /\ output_dir \in (IF input_dir.base THEN {"absent", "present"} ELSE {"absent"})
    /\ variable = "tasmax"
    /\ aggregation \in ModeStrings
    /\ max_rows_per_sheet = MaxCeiling
    /\ files_with_years = <<>>
    /\ merged = NoMerged
    /\ time_years = <<>>
    /\ data_dict = <<>>
    /\ dataframe_data = <<>>
    /\ workbook = <<>>
    /\ raised = NoError
    /\ printed = {}
    /\ reductions = 0
    /\ exit_status = -1
    /\ stages = <<>>

ViaMain == stages # <<>> /\ stages[1] = "main"

\* The steps of process_files, in the order of its code.
StageOrder == <<"discover", "precheck", "merge", "extract", "prepare", "write">>

output_dir_made_first(step) ==
    IF step = "discover" THEN mkdir(output_dir) ELSE output_dir

\* The output directory after a step: get_output_path, which makes it, is
\* called in step 6 and nowhere else.
output_dir_after(step) ==
    IF step = "write" THEN mkdir(output_dir) ELSE output_dir

\* The process ends with `leaving` leaving process_files.
End(leaving, prints) ==
    /\ pc' = "exited"
    /\ exit_status' = IF ViaMain THEN main_status(leaving) ELSE script_status(leaving)
    /\ printed' = printed \cup prints \cup (IF ViaMain THEN main_prints(leaving) ELSE {})

\* A step of process_files raised exc: its except clause prints and exits,
\* or the exception leaves process_files.
StepFails(step, exc, text) ==
    End(leaves(step, exc), IF catches(step, exc) THEN {<<"ERROR", text>>} ELSE {})

\* main up to the call of process_files: argparse (an --aggregation outside
\* the choices ends the process with status 2) and --validate-paths.
Main ==
    /\ pc = "main"
    /\ stages' = Append(stages, "main")
    /\ LET v == config_validate_paths(input_dir, output_dir)
       IN  IF aggregation \notin Modes
           THEN /\ pc' = "exited"
                /\ exit_status' = 2
                /\ printed' = printed \cup {<<"error", "argument --aggregation: invalid choice">>}
           ELSE IF validate_paths /\ ~v.input_exists
           THEN /\ pc' = "exited"
                /\ exit_status' = 1
                /\ printed' = printed \cup {<<"ERROR", "Input path does not exist">>}
           ELSE /\ pc' = "step1"
                /\ exit_status' = exit_status
                /\ printed' = printed \cup
                      (IF validate_paths /\ ~v.output_exists
                       THEN {<<"WARNING", "Output path does not exist">>} ELSE {})
    /\ UNCHANGED <<validate_paths, input_dir, contents, variable, aggregation,
                   files_with_years, merged, time_years, data_dict, dataframe_data,
                   max_rows_per_sheet, workbook, output_dir, raised, reductions>>

\* Step 1: discover_nc_files, then get_file_info, which discovers again.
Step1 ==
    /\ pc = "step1"
    /\ stages' = Append(stages, "discover")
    /\ LET found == discover_nc_files(input_dir)
           info == discover_nc_files(input_dir)
           r == IF found.exc # "none" THEN found ELSE info
       IN  /\ raised' = [exc |-> r.exc, msg |-> r.msg, file |-> 0]
           /\ files_with_years' = found.value
           /\ IF r.exc = "none"
              THEN pc' = "step2" /\ UNCHANGED <<printed, exit_status>>
              ELSE StepFails("discover", r.exc, r.msg)
    /\ output_dir' = output_dir_after("discover")
    /\ UNCHANGED <<validate_paths, input_dir, contents, variable, aggregation, merged,
                   time_years, data_dict, dataframe_data, max_rows_per_sheet, workbook,
                   reductions>>

\* Step 2: the pre-check only warns.
Step2 ==
    /\ pc = "step2"
    /\ stages' = Append(stages, "precheck")
    /\ printed' = printed \cup
          (IF validate_coordinate_consistency(file_paths_of(files_with_years), contents)
           THEN {}
           ELSE {<<"WARNING", "Coordinate inconsistency detected. Proceeding anyway...">>})
    /\ pc' = "step3"
    /\ output_dir' = output_dir_after("precheck")
    /\ UNCHANGED <<validate_paths, input_dir, contents, variable, aggregation,
                   files_with_years, merged, time_years, data_dict, dataframe_data,
                   max_rows_per_sheet, workbook, raised, reductions, exit_status>>

\* Step 3: merge_nc_files.
Step3 ==
    /\ pc = "step3"
    /\ stages' = Append(stages, "merge")
    /\ LET r == merge_nc_files(file_paths_of(files_with_years), variable,
                               years_of(files_with_years), contents)
       IN  /\ raised' = [exc |-> r.exc, msg |-> r.msg, file |-> r.file]
           /\ merged' = r.value.merged
           /\ time_years' = r.value.time_years
           /\ IF r.exc = "none"
              THEN pc' = "step4" /\ UNCHANGED <<printed, exit_status>>
              ELSE StepFails("merge", r.exc, "Failed to merge files")
    /\ output_dir' = output_dir_after("merge")
    /\ UNCHANGED <<validate_paths, input_dir, contents, variable, aggregation,
                   files_with_years, data_dict, dataframe_data, max_rows_per_sheet,
                   workbook, reductions>>

\* Step 4: extract_coordinate_data, then lat.min() and lon.min() for the
\* report, which raise on an empty array.
Step4 ==
    /\ pc = "step4"
    /\ stages' = Append(stages, "extract")
    /\ LET x == extract_coordinate_data(merged, time_years, aggregation)
           r == IF x.exc = "none" /\ (merged.lat = <<>> \/ merged.lon = <<>>)
                THEN [exc |-> "ValueError", msg |-> "zero-size array to reduction operation"]
                ELSE [exc |-> x.exc, msg |-> x.msg]
       IN  /\ raised' = [exc |-> r.exc, msg |-> r.msg, file |-> 0]
           /\ data_dict' = IF x.exc = "none" THEN x.value.data_dict ELSE <<>>
           /\ reductions' = x.reductions
           /\ IF r.exc = "none"
              THEN pc' = "step5" /\ UNCHANGED <<printed, exit_status>>
              ELSE StepFails("extract", r.exc, "Failed to extract coordinate data")
    /\ output_dir' = output_dir_after("extract")
    /\ UNCHANGED <<validate_paths, input_dir, contents, variable, aggregation,
                   files_with_years, merged, time_years, dataframe_data,
                   max_rows_per_sheet, workbook>>

\* Step 5: prepare_dataframe_data.
Step5 ==
    /\ pc = "step5"
    /\ stages' = Append(stages, "prepare")
    /\ LET r == prepare_dataframe_data(merged.lat, merged.lon, data_dict, variable)
       IN  /\ raised' = [exc |-> r.exc, msg |-> r.msg, file |-> 0]
           /\ dataframe_data' = r.value
           /\ IF r.exc = "none"
              THEN pc' = "step6" /\ UNCHANGED <<printed, exit_status>>
              ELSE StepFails("prepare", r.exc, "Failed to prepare DataFrame data")
    /\ output_dir' = output_dir_after("prepare")
    /\ UNCHANGED <<validate_paths, input_dir, contents, variable, aggregation,
                   files_with_years, merged, time_years, data_dict, max_rows_per_sheet,
                   workbook, reductions>>

\* validate_excel_file: False when the file is not there, and when
\* pd.read_excel raises on it.
validate_excel_file(file_exists, readable) == file_exists /\ readable

validated_or_raise(valid) ==
    [exc |-> IF valid THEN "none" ELSE "RuntimeError",
     prints |-> IF valid THEN {<<"INFO", "SUCCESS! Excel file created">>}
                ELSE {<<"WARNING", "Excel file created but validation failed">>}]

\* What step 6 does with the result of validate_excel_file: it prints
\* SUCCESS or WARNING and returns the output path in both cases.
validated(valid) ==
    [exc |-> "none",
     prints |-> IF valid THEN {<<"INFO", "SUCCESS! Excel file created">>}
                ELSE {<<"WARNING", "Excel file created but validation failed">>}]

\* Step 6: get_output_path makes the output directory, write_to_excel
\* writes, validate_excel_file reopens the file; the path is returned
\* whether or not the validation passed.  The directory may be impossible
\* to make, the file to write or to read back.
Step6 ==
    /\ pc = "step6"
    /\ stages' = Append(stages, "write")
    /\ \E mkdir_ok \in (IF output_dir = "absent" THEN BOOLEAN ELSE {TRUE}) :
       \E io_ok \in BOOLEAN : \E file_exists \in BOOLEAN : \E readable \in BOOLEAN :
          LET w == write_to_excel(dataframe_data, max_rows_per_sheet, io_ok)
              written == mkdir_ok /\ w.exc = "none"
              v == validated(validate_excel_file(file_exists, readable))
              r == IF ~mkdir_ok
                   THEN [exc |-> "PermissionError", msg |-> "cannot make the output directory"]
                   ELSE IF w.exc # "none" THEN [exc |-> w.exc, msg |-> w.msg]
                   ELSE [exc |-> v.exc, msg |-> ""]
          IN  /\ raised' = [exc |-> r.exc, msg |-> r.msg, file |-> 0]
              /\ output_dir' = IF mkdir_ok THEN output_dir_after("write") ELSE output_dir
              /\ workbook' = IF written THEN w.value ELSE workbook
              /\ End(leaves("write", r.exc),
                     (IF written THEN v.prints ELSE {})
                     \cup (IF catches("write", r.exc)
                           THEN {<<"ERROR", "Failed to export to Excel">>} ELSE {}))
    /\ UNCHANGED <<validate_paths, input_dir, contents, variable, aggregation,
                   files_with_years, merged, time_years, data_dict, dataframe_data,
                   max_rows_per_sheet, reductions>>

\* The user interrupts the command-line run while a step of process_files
\* is running: a KeyboardInterrupt, which no except clause of process_files
\* catches.  The step may or may not have reached its last statement.
Interrupt ==
    /\ ViaMain
    /\ pc \in {"step1", "step2", "step3", "step4", "step5", "step6"}
    /\ raised' = [exc |-> "KeyboardInterrupt", msg |-> "", file |-> 0]
    /\ \E k \in 1..Len(StageOrder) :
          /\ pc = <<"step1", "step2", "step3", "step4", "step5", "step6">>[k]
          /\ stages' = Append(stages, StageOrder[k])
          /\ \E made \in BOOLEAN :
                output_dir' = IF made THEN output_dir_after(StageOrder[k]) ELSE output_dir
    /\ End([exc |-> "KeyboardInterrupt", code |-> 0], {})
    /\ UNCHANGED <<validate_paths, input_dir, contents, variable, aggregation,
                   files_with_years, merged, time_years, data_dict, dataframe_data,
                   max_rows_per_sheet, workbook, reductions>>

Next == Main \/ Step1 \/ Step2 \/ Step3 \/ Step4 \/ Step5 \/ Step6 \/ Interrupt

Spec == Init /\ [][Next]_vars

----------------------------------------------------------------------------
(* Claims about discovery, checked under SpecDiscover *)

\* The year each file name of FileNames spells between underscores, read
\* off the name by hand; 0 for a name discovery must leave out.
SpelledYear(name) ==
    CASE name = F2035a -> 2035
      [] name = F2036a -> 2036
      [] name = F2035b -> 2035
      [] name = F2034late -> 2034
      [] name = FTwoYears -> 2037
      [] OTHER -> 0

DiscoverReturned == pc = "returned" /\ raised.exc = "none"

DiscoverExactlyTheMatching ==
    LET expected == {n \in Range(input_dir.entries) : SpelledYear(n) # 0}
    IN  /\ Len(files_with_years) = Cardinality(expected)
        /\ {files_with_years[i].path : i \in 1..Len(files_with_years)} = expected
        /\ \A i \in 1..Len(files_with_years) :
              files_with_years[i].year = SpelledYear(files_with_years[i].path)

\* C1 (as amended): when discover_nc_files succeeds it returns exactly one
\* (path, year) pair for each .nc file whose name matches the year pattern
\* and none for the others, and the pairs are sorted ascending by year:
\* each year is at least the one before it (two files of one year are both
\* returned, next to each other).
C1_DiscoverSortedAscending ==
    DiscoverReturned =>
        /\ DiscoverExactlyTheMatching
        /\ \A i \in 1..(Len(files_with_years) - 1) :
              files_with_years[i].year <= files_with_years[i + 1].year

\* C1 as stated: the same, with every year strictly greater than the one
\* before it.
C1_DiscoverStrictlyAscending ==
    DiscoverReturned =>
        /\ DiscoverExactlyTheMatching
        /\ \A i \in 1..(Len(files_with_years) - 1) :
              files_with_years[i].year < files_with_years[i + 1].year

\* Discovery succeeded on a listing given out of year order, with a file
\* left out and two files of one year.
C1_Witness ==
    /\ DiscoverReturned
    /\ Len(files_with_years) = 2
    /\ Len(input_dir.entries) = 3
    /\ files_with_years[1].year = files_with_years[2].year
    /\ \E i \in 1..2 : SpelledYear(input_dir.entries[i]) > SpelledYear(input_dir.entries[i + 1])

----------------------------------------------------------------------------
(* Claims about the merge, checked under SpecMerge *)

MergeReturned == pc = "returned" /\ raised.exc = "none"

\* The file at the k-th path, and the number of time steps before it.
FileAt(k) == contents[files_with_years[k].path]

DaysBefore(k) == Sum([i \in 1..(k - 1) |-> Len(FileAt(i).data)])

SameGrid ==
    \A k \in 1..Len(files_with_years) :
        FileAt(k).lat = FileAt(1).lat /\ FileAt(k).lon = FileAt(1).lon

\* C2: merging files that share one grid, each paired with its year, gives
\* a series whose time length is the sum of the files' time lengths, in
\* file order, and a year list of that length in which every time step
\* carries the year of the file it came from.
C2_MergeLengthAndLabels ==
    MergeReturned =>
        /\ Len(merged.data) = DaysBefore(Len(files_with_years) + 1)
        /\ Len(time_years) = Len(merged.data)
        /\ \A k \in 1..Len(files_with_years) :
              \A t \in 1..Len(FileAt(k).data) :
                  /\ time_years[DaysBefore(k) + t] = files_with_years[k].year
                  /\ SameGrid => merged.data[DaysBefore(k) + t] = FileAt(k).data[t]

\* Three files of one grid were merged: two, no and one time step.
C2_Witness ==
    /\ MergeReturned
    /\ Len(files_with_years) = 3
    /\ SameGrid
    /\ Len(FileAt(1).data) = 2 /\ Len(FileAt(2).data) = 0 /\ Len(FileAt(3).data) = 1
    /\ time_years = <<2035, 2035, 2037>>

\* The k-th file has a latitude or longitude more than 0.01 away from the
\* first file's corresponding one (grids of the same shape).
OffGrid(k) ==
    \/ \E i \in 1..Len(FileAt(1).lat) : Abs(FileAt(k).lat[i] - FileAt(1).lat[i]) > 10
    \/ \E j \in 1..Len(FileAt(1).lon) : Abs(FileAt(k).lon[j] - FileAt(1).lon[j]) > 10

AllRead ==
    \A k \in 1..Len(files_with_years) :
        FileAt(k).readable /\ variable \in FileAt(k).data_vars

SameShape ==
    \A k \in 1..Len(files_with_years) :
        Len(FileAt(k).lat) = Len(FileAt(1).lat) /\ Len(FileAt(k).lon) = Len(FileAt(1).lon)

\* C3: on files that were all read and have grids of one shape,
\* merge_nc_files fails with a coordinate-mismatch error naming the first
\* file that has a latitude or longitude more than 0.01 away from the first
\* file's, and passes the grid check when every coordinate is within 0.01:
\* only the absolute difference decides.
C3_AbsoluteToleranceDecides ==
    (pc = "returned" /\ AllRead /\ SameShape) =>
        LET off == {k \in 2..Len(files_with_years) : OffGrid(k)}
        IN  IF off = {}
            THEN raised.exc = "none"
            ELSE /\ raised.exc = "ValueError"
                 /\ raised.msg = "Coordinate mismatch detected in file"
                 /\ raised.file = Min(off)

----------------------------------------------------------------------------
(* Claims about the aggregation, checked under SpecExtract *)

\* The time indices labelled with a year, and what one cell holds there.
LabelledWith(year) == {t \in 1..Len(time_years) : time_years[t] = year}

CellAt(t, i, j) == merged.data[t][i][j].num

RECURSIVE SumOver(_, _, _)
SumOver(T, i, j) ==
    IF T = {} THEN 0
    ELSE LET t == CHOOSE x \in T : TRUE IN CellAt(t, i, j) + SumOver(T \ {t}, i, j)

\* What the claim says a year's cell is, under each reducing mode.
IsReductionOf(v, T, i, j) ==
    /\ ~v.nan
    /\ aggregation = "mean" => v.num * Cardinality(T) = SumOver(T, i, j) * v.den
    /\ aggregation = "max" =>
          /\ v.den = 1
          /\ \E t \in T : CellAt(t, i, j) = v.num
          /\ \A t \in T : CellAt(t, i, j) <= v.num
    /\ aggregation = "min" =>
          /\ v.den = 1
          /\ \E t \in T : CellAt(t, i, j) = v.num
          /\ \A t \in T : CellAt(t, i, j) >= v.num

\* C5: with mode mean, max or min, extract_coordinate_data returns a mapping
\* whose keys are exactly the distinct years of the time-to-year mapping,
\* and whose value for a year is, cell by cell, the reduction over exactly
\* the time indices labelled with that year, contiguous or not (the cells
\* being numbers, not NaN).
C5_YearlyReduction ==
    (pc = "returned" /\ aggregation \in {"mean", "max", "min"}) =>
        /\ raised.exc = "none"
        /\ {data_dict[k].year : k \in 1..Len(data_dict)} = Range(time_years)
        /\ Len(data_dict) = Cardinality(Range(time_years))
        /\ \A k \in 1..Len(data_dict) :
              /\ data_dict[k].array.ndim = 2
              /\ Len(data_dict[k].array.cells) = Len(merged.lat)
              /\ \A i \in 1..Len(merged.lat) :
                    /\ Len(data_dict[k].array.cells[i]) = Len(merged.lon)
                    /\ \A j \in 1..Len(merged.lon) :
                          IsReductionOf(data_dict[k].array.cells[i][j],
                                        LabelledWith(data_dict[k].year), i, j)

\* A mean was taken over the first and third time step, which are labelled
\* with one year and hold different values, the second step being another
\* year's.
C5_Witness ==
    /\ pc = "returned"
    /\ aggregation = "mean"
    /\ time_years = <<2035, 2036, 2035>>
    /\ CellAt(1, 1, 1) = 1 /\ CellAt(2, 1, 1) = 1 /\ CellAt(3, 1, 1) = 4
    /\ Len(data_dict) = 2
    /\ data_dict[1].array.cells[1][1] = [nan |-> FALSE, num |-> 5, den |-> 2]

\* C6: called with a mode other than mean, max, min or all,
\* extract_coordinate_data fails with a configuration error, whatever the
\* number of years and time steps (none included), before any array
\* reduction and without returning any year entry.
C6_UnknownModeFails ==
    (pc = "returned" /\ aggregation \notin Modes) =>
        /\ raised.exc = "ValueError"
        /\ raised.msg = "Unknown aggregation method"
        /\ reductions = 0
        /\ data_dict = <<>>

----------------------------------------------------------------------------
(* Claims about the table and the spreadsheet, checked under SpecTable *)

\* The table prepare_dataframe_data returned in this run.
Prepared == stages # <<>> /\ stages[1] = "prepare" /\ (pc = "write" \/ Len(stages) = 2)

\* The values of the column of the given name.
ColumnNamed(table, name) ==
    table[CHOOSE c \in 1..Len(table) : table[c].name = name].values

\* C7: for a grid of M latitudes and N longitudes, prepare_dataframe_data
\* produces exactly M*N rows in which row lat_index*N + lon_index holds
\* (lat[lat_index], lon[lon_index]) and, in the column of each year given as
\* a (lat, lon) array, that array's value at the cell; every (lat, lon)
\* combination appears exactly once and all columns have length M*N.
C7_RowMajorTable ==
    Prepared =>
        LET n_lat == Len(merged.lat)
            n_lon == Len(merged.lon)
            lats == ColumnNamed(dataframe_data, <<"lat">>)
            lons == ColumnNamed(dataframe_data, <<"lon">>)
        IN  /\ Len(dataframe_data) = 2 + Len(data_dict)
            /\ \A c \in 1..Len(dataframe_data) :
                  Len(dataframe_data[c].values) = n_lat * n_lon
            /\ \A i \in 1..n_lat : \A j \in 1..n_lon :
                  /\ lats[(i - 1) * n_lon + j] = merged.lat[i]
                  /\ lons[(i - 1) * n_lon + j] = merged.lon[j]
                  /\ Cardinality({r \in 1..(n_lat * n_lon) :
                                     lats[r] = merged.lat[i] /\ lons[r] = merged.lon[j]}) = 1
                  /\ \A k \in 1..Len(data_dict) :
                        data_dict[k].array.ndim = 2 =>
                            ColumnNamed(dataframe_data,
                                        <<variable, "_", data_dict[k].year>>)[(i - 1) * n_lon + j]
                                = data_dict[k].array.cells[i][j]

\* A 2 x 2 grid and two years' (lat, lon) arrays were tabulated.
C7_Witness ==
    /\ Prepared
    /\ Len(merged.lat) = 2 /\ Len(merged.lon) = 2
    /\ Len(data_dict) = 2
    /\ data_dict[1].array.ndim = 2 /\ data_dict[2].array.ndim = 2
    /\ Len(dataframe_data) = 4
    /\ Len(dataframe_data[3].values) = 4

\* The years of the year-to-array mapping, ascending.
ProcessedYears == Ascending({data_dict[k].year : k \in 1..Len(data_dict)})

Written == pc = "returned" /\ stages # <<>> /\ stages[Len(stages)] = "write"

\* C8: the columns of every sheet written from the tabulated years are
\* "lat", then "lon", then exactly one column "<variable>_<year>" for each
\* distinct processed year, in ascending year order; and write_to_excel
\* rejects a table without a "lat" or "lon" column with an error before
\* writing anything.
C8_SheetColumns ==
    /\ (Written /\ Len(stages) = 2 /\ raised.exc = "none") =>
          /\ workbook # <<>>
          /\ \A s \in 1..Len(workbook) :
                workbook[s].columns =
                    <<(<<"lat">>), (<<"lon">>)>>
                        \o [k \in 1..Len(ProcessedYears) |-> <<variable, "_", ProcessedYears[k]>>]
    /\ (Written /\ (~HasColumn(dataframe_data, <<"lat">>) \/ ~HasColumn(dataframe_data, <<"lon">>))) =>
          /\ raised.exc = "ValueError"
          /\ raised.msg = "data_dict must contain 'lat' and 'lon' keys"
          /\ workbook = <<>>

\* Two years inserted in descending order were tabulated and written to
\* more than one sheet.
C8_Witness ==
    /\ Written /\ Len(stages) = 2 /\ raised.exc = "none"
    /\ Len(data_dict) = 2
    /\ data_dict[1].year > data_dict[2].year
    /\ Len(workbook) >= 2

\* The rows of the table, and whether a sheet row is the r-th of them.
TableRows == Len(ColumnNamed(dataframe_data, <<"lat">>))

IsTableRow(sheet, row, r) ==
    /\ Len(row) = Len(dataframe_data)
    /\ \A c \in 1..Len(sheet.columns) :
          row[c] = ColumnNamed(dataframe_data, sheet.columns[c])[r]

\* C9: for a table of R rows and a ceiling C >= 1, write_to_excel writes a
\* single unnumbered sheet holding all R rows when R <= C, and otherwise
\* ceil(R/C) consecutively numbered sheets where sheet k (from 0) holds
\* exactly rows [k*C, min((k+1)*C, R)) in original order, so every row is
\* in exactly one sheet and no sheet has more than C rows.
C9_SheetSplit ==
    (Written /\ raised.exc = "none") =>
        LET R == TableRows
            C == max_rows_per_sheet
        IN  IF R <= C
            THEN /\ Len(workbook) = 1
                 /\ workbook[1].name = <<"Data">>
                 /\ Len(workbook[1].rows) = R
                 /\ \A r \in 1..R : IsTableRow(workbook[1], workbook[1].rows[r], r)
            ELSE /\ (Len(workbook) - 1) * C < R
                 /\ R <= Len(workbook) * C
                 /\ \A k \in 0..(Len(workbook) - 1) :
                       LET sheet == workbook[k + 1]
                           last == IF (k + 1) * C < R THEN (k + 1) * C ELSE R
                       IN  /\ sheet.name = <<"Data", "_", k + 1>>
                           /\ Len(sheet.rows) = last - k * C
                           /\ Len(sheet.rows) <= C
                           /\ \A r \in 1..Len(sheet.rows) :
                                 IsTableRow(sheet, sheet.rows[r], k * C + r)

\* A table of ceiling + 1 rows was written: two sheets, of ceiling rows and
\* of one row.
C9_Witness ==
    /\ Written /\ raised.exc = "none"
    /\ max_rows_per_sheet = 3
    /\ TableRows = 4
    /\ Len(workbook) = 2
    /\ Len(workbook[1].rows) = 3
    /\ Len(workbook[2].rows) = 1

----------------------------------------------------------------------------
(* Claims about the whole run, checked under Spec *)

RunStages == IF ViaMain THEN Tail(stages) ELSE stages

IsPrefix(s, t) == Len(s) <= Len(t) /\ \A i \in 1..Len(s) : s[i] = t[i]

OutputProduced == output_dir = "created" \/ workbook # <<>>

PrecheckWarned ==
    <<"WARNING", "Coordinate inconsistency detected. Proceeding anyway...">> \in printed

\* The run ended in the failure of the step named.
FailedIn(step) ==
    /\ pc = "exited"
    /\ RunStages # <<>>
    /\ RunStages[Len(RunStages)] = step
    /\ raised.exc \notin {"none", "KeyboardInterrupt"}

\* C4: the steps begun are an initial part of discover, pre-check, merge,
\* extract, prepare, write, in that order; the output directory is made and
\* the workbook written only once all six have begun, hence after discovery,
\* merge, extraction and tabulation have returned their results; a run that
\* ends in the failure of one of those four has produced no output; and the
\* pre-check's warning never ends the run: the merge is begun after it.
C4_OutputOnlyAfterStages ==
    /\ IsPrefix(RunStages, StageOrder)
    /\ OutputProduced =>
          /\ RunStages = StageOrder
          /\ files_with_years # <<>>
          /\ merged # NoMerged
          /\ dataframe_data # <<>>
    /\ \A step \in {"discover", "merge", "extract", "prepare"} :
          FailedIn(step) => ~OutputProduced
    /\ PrecheckWarned => pc = "step3" \/ Len(RunStages) >= 3

\* C4 witness: the pre-check warned and went on, the merge then failed on
\* the coordinate mismatch, and the run ended with no output.
C4_Witness ==
    /\ PrecheckWarned
    /\ FailedIn("merge")
    /\ raised.msg = "Coordinate mismatch detected in file"
    /\ ~OutputProduced

AllStagesSucceeded ==
    /\ RunStages = StageOrder
    /\ raised.exc = "none"
    /\ workbook # <<>>

\* C10: a command-line run that has ended has status 0 exactly when all six
\* steps ran and the workbook was written; it has status 1 whenever a step
\* raised (a handled error or an interrupt) and whenever --validate-paths
\* found the input path missing.
C10_ExitStatus ==
    (pc = "exited" /\ ViaMain) =>
        /\ exit_status = 0 <=> AllStagesSucceeded
        /\ raised.exc # "none" => exit_status = 1
        /\ (<<"ERROR", "Input path does not exist">> \in printed) => exit_status = 1

\* C10 witness: a command-line run interrupted in the merge ends with
\* status 1.
C10_Witness ==
    /\ pc = "exited"
    /\ ViaMain
    /\ raised.exc = "KeyboardInterrupt"
    /\ RunStages = <<"discover", "precheck", "merge">>
    /\ exit_status = 1

----------------------------------------------------------------------------
(* Claims about --validate-paths, checked under Spec *)

InputPathError == <<"ERROR", "Input path does not exist">> \in printed

OutputPathWarning == <<"WARNING", "Output path does not exist">> \in printed

\* main has run its argument parsing and path validation with the flag set.
PathsValidated == ViaMain /\ validate_paths /\ aggregation \in Modes

\* The base output directory was missing when the run began: the run can
\* only make it, never remove it.
OutputWasMissing == output_dir \in {"absent", "created"}

\* A missing base input directory ends the run with an error before any
\* discovery.
C11_MissingInputIsFatal ==
    (PathsValidated /\ ~input_dir.base) =>
        pc = "exited" /\ InputPathError /\ RunStages = <<>> /\ exit_status = 1

\* With both base directories present neither the error nor the warning is
\* printed.
C11_NothingMissingNothingSaid ==
    (PathsValidated /\ input_dir.base /\ ~OutputWasMissing) =>
        ~InputPathError /\ ~OutputPathWarning

\* C11: with --validate-paths a missing base input directory ends the run
\* with an error before any discovery, a missing base output directory is
\* reported as a warning and the run goes on, and with nothing missing
\* neither is printed.
C11_PathValidation ==
    /\ C11_MissingInputIsFatal
    /\ (PathsValidated /\ input_dir.base /\ OutputWasMissing) =>
          OutputPathWarning /\ ~InputPathError
    /\ C11_NothingMissingNothingSaid

----------------------------------------------------------------------------
(* Claims about the failures of discovery, checked under SpecDiscover *)

\* The .nc files of the directory, and those among them that spell a year,
\* read off the names.
NcNames == {n \in Range(input_dir.entries) : n # FText}

YearNames == {n \in NcNames : SpelledYear(n) # 0}

ReturnedPaths == {files_with_years[i].path : i \in 1..Len(files_with_years)}

\* C12: discover_nc_files never returns an empty list.  A missing directory
\* fails with FileNotFoundError whatever it would have held; a directory
\* without a .nc file fails with a ValueError; .nc files without a year are
\* skipped and the others returned; and when every .nc file is skipped it
\* fails with a ValueError whose message differs from the one of the
\* directory without .nc files.
C12_DiscoverFailures ==
    pc = "returned" =>
        /\ raised.exc = "none" => files_with_years # <<>>
        /\ ~input_dir.exists =>
              raised.exc = "FileNotFoundError" /\ files_with_years = <<>>
        /\ (input_dir.exists /\ NcNames = {}) =>
              /\ raised.exc = "ValueError"
              /\ raised.msg = "No NetCDF files found in directory"
        /\ (input_dir.exists /\ NcNames # {} /\ YearNames = {}) =>
              /\ raised.exc = "ValueError"
              /\ raised.msg = "Could not extract years from any files"
              /\ raised.msg # "No NetCDF files found in directory"
        /\ (input_dir.exists /\ YearNames # {}) =>
              raised.exc = "none" /\ ReturnedPaths = YearNames

\* C12 witness: one .nc file without a year was skipped and discovery went
\* on to return another.
C12_Witness ==
    /\ pc = "returned"
    /\ raised.exc = "none"
    /\ FNoYear \in NcNames
    /\ FNoYear \notin ReturnedPaths
    /\ ReturnedPaths # {}

\* Every .nc file was skipped.
C12_AllSkipped ==
    /\ pc = "returned"
    /\ NcNames # {}
    /\ raised.msg = "Could not extract years from any files"

----------------------------------------------------------------------------
(* Claims about mode "all", checked under Spec *)

\* The run was given mode "all" and its tabulation has returned.
TabulatedAll ==
    /\ aggregation = "all"
    /\ Len(RunStages) >= 5
    /\ dataframe_data # <<>>

\* The table mode "mean" makes of the same merged series.
MeanTable ==
    prepare_dataframe_data(merged.lat, merged.lon,
        extract_coordinate_data(merged, time_years, "mean").value.data_dict,
        variable).value

\* Some cell of the merged series has no value on some day.
SomeCellMissing ==
    \E t \in 1..Len(merged.data) :
    \E i \in 1..Len(merged.lat) :
    \E j \in 1..Len(merged.lon) : merged.data[t][i][j].nan

\* The days of a year, as extract_coordinate_data selects them.
DaysOf(year) == {t \in 1..Len(time_years) : time_years[t] = year}

\* In mode "all" the entry of each year is the year's (day, lat, lon) slice
\* as it stands in the merged series, and no reduction is performed.
C13_SliceKeptUnreduced ==
    TabulatedAll =>
        /\ reductions = 0
        /\ \A k \in 1..Len(data_dict) :
              /\ data_dict[k].array.ndim = 3
              /\ Len(data_dict[k].array.cells) = Cardinality(DaysOf(data_dict[k].year))
              /\ \A d \in 1..Len(data_dict[k].array.cells) :
                    data_dict[k].array.cells[d]
                       = merged.data[year_indices(time_years, data_dict[k].year)[d]]

\* On a merged series where every cell has a value on every day the table
\* of mode "all" is the table of mode "mean".
C13_SameTableWhenComplete ==
    (TabulatedAll /\ ~SomeCellMissing) => dataframe_data = MeanTable

\* C13: in mode "all" each year's (day, lat, lon) slice is kept unreduced
\* and the table made of it is the table mode "mean" makes of the same
\* merged series: each year's column holds at row lat_index*N + lon_index
\* the mean of the cell's daily values of the year.
C13_AllModeIsMeanMode ==
    /\ C13_SliceKeptUnreduced
    /\ TabulatedAll => dataframe_data = MeanTable

----------------------------------------------------------------------------
(* Claims about the validation of the workbook, checked under Spec *)

ValidationWarned ==
    <<"WARNING", "Excel file created but validation failed">> \in printed

\* C14: when the validation of the written workbook fails, step 6 only
\* prints a warning: the workbook has been written, process_files returns
\* (nothing is raised and no export error is printed) and the run ends with
\* exit status 0.
C14_ValidationFailureIsWarning ==
    ValidationWarned =>
        /\ pc = "exited"
        /\ RunStages = StageOrder
        /\ workbook # <<>>
        /\ raised.exc = "none"
        /\ <<"ERROR", "Failed to export to Excel">> \notin printed
        /\ exit_status = 0

\* C14 witness: a command-line run whose workbook failed the validation has
\* ended with status 0.
C14_Witness ==
    /\ ViaMain
    /\ ValidationWarned
    /\ pc = "exited"
    /\ workbook # <<>>
    /\ exit_status = 0

====
